---- MODULE Spec2Model ----
(***************************************************************************)
(* Model of helm/update-minecraft.py: the zero-downtime update of a        *)
(* Minecraft StatefulSet (MinecraftUpdater.perform_update, driven by       *)
(* main).  Every external call (kubectl, helm, RCON, the proxy script) is  *)
(* an input of the step that issues it: its outcome is drawn from the      *)
(* outcomes the call can have.                                             *)
(***************************************************************************)
EXTENDS Integers, Sequences, FiniteSets, TLC

VARIABLES
    pc,               \* position in main / perform_update
    dry_run,          \* args.dry_run
    force_restart,    \* args.force_restart (main may turn it on)
    skip_validation,  \* args.skip_validation
    has_password,     \* bool(self.rcon_password)
    current_step,     \* self.current_step
    rollback_needed,  \* self.rollback_needed
    success,          \* self.success
    result,           \* what perform_update gave its caller
    abort_step,       \* the step whose early "return False" ended the session, 0 if none
    exit_code,        \* sys.exit code, -1 while the process runs
    player_count,     \* player_count of step 1, -1 for None (step 1 logs it; it is
                      \* not read again, and the model drops it after step 1)
    poll_i,           \* loop index of the shutdown wait loop
    real,             \* kinds of real external calls issued so far
    scaled,           \* the replicas arguments of the scale_statefulset calls, in order
    validate_calls,   \* number of validate_world_data invocations
    replicas,         \* replica count last set on the StatefulSet, -1 if never set
    up,               \* up[i]: pod i last seen ready and not stopped or deleted since
    hasWorld,         \* hasWorld[i]: pod i's /minecraft-world holds the world
    routing,          \* the slot the proxy was last made to prefer
    switched,         \* the arguments of the switch_bungee_priority calls, in order
    last,             \* what the latest step saw: the operations that returned False
                      \* ("copy": a copy that returned False), what went wrong inside
                      \* them ("sync": the transfer or the validation of a copy, "cperr":
                      \* a copy error the commands ignored), and the timeouts that
                      \* happened ("wait_timeout", "delete_timeout")
    call,             \* the component call of the latest step with its inputs and its
                      \* result: the list query of step 1, the validation of step 3, the
                      \* broadcast of step 4, the save of step 6, the copies of steps 7
                      \* and 9, the RCON session of the shutdown of step 10; the other
                      \* steps clear it
    pods,             \* <<index, name>> of the pods perform_update has addressed
    rcon_failed,      \* some RCON session or command failed
    copies,           \* <<slot, direction>> of the sync_world_data calls, in order
    sessions,         \* the RCON sessions so far: with-blocks entered (connects),
                      \* __exit__ calls (disconnects), sockets left open (open)
    ext_failed        \* some kubectl / helm / proxy / world-data operation failed

vars == <<pc, dry_run, force_restart, skip_validation, has_password, current_step,
          rollback_needed, success, result, abort_step, exit_code, player_count,
          poll_i, real, scaled, validate_calls, replicas, up, hasWorld,
          routing, switched, last, call, pods, copies, rcon_failed, sessions,
          ext_failed>>

(***************************************************************************)
(* Bounds and program constants                                            *)
(***************************************************************************)
MaxPlayers == 2          \* largest player count a "list" response reports
MaxSyncRetries == 1      \* failed world-sync.sh runs before the last attempt
MaxRegions == 1          \* largest number of region files a world holds
total_steps == 12        \* self.total_steps
PollBudget == 30         \* range(30) of the shutdown wait loop

Slots == {0, 1}

\* args.release
minecraft_release == "minecraft-server"

(***************************************************************************)
(* Outcomes of the external calls                                          *)
(***************************************************************************)
\* run_command with check=True: exit 0, CalledProcessError, or an OSError
\* (the binary cannot be executed), which only "except Exception" catches.
CmdOutcomes == {"ok", "fail", "oserr"}
\* kubectl wait --timeout: the timeout is one of the non-zero exits.
WaitOutcomes == CmdOutcomes \cup {"timeout"}
\* kubectl delete runs with timeout=60 and may also end in TimeoutExpired.
DeleteOutcomes == {"ok", "fail", "timeout", "oserr"}
\* An RCON session: MCRcon() itself raises (mcr stays None), connect() raises
\* (mcr is set, the socket is not), a command raises, or all is well.
RconOutcomes == {"ctorfail", "connfail", "cmdfail", "ok"}
\* The "list" response as get_online_players sees it: a text, here the sequence
\* of its words.  ListResponse(n) is what a server with n players answers.
ListResponse(n) ==
    <<"There", "are", ToString(n), "of", "a", "max", "players", "online", ":", "names">>
ListResponses ==
    {<<>>,
     <<"Unknown", "command">>,
     <<"There", "are", "no", "players", "online">>,
     <<"There", "are", "of", "a", "max", "players", "online", ":">>}
    \cup {ListResponse(n) : n \in 0..MaxPlayers}
\* validate_world_data's finding.
ValOutcomes == {"valid", "invalid", "unchecked", "error"}
\* What validate_world_data meets: /scripts/validate-world.sh in the pod (and what
\* it prints, or that it cannot be run), else the validation ConfigMap (then the
\* checks are made from here), else neither; or an exception on the way.
Validators ==
    {"script_pass", "script_fail", "script_execfail", "configmap", "none", "exception"}
\* The world directory under validation.
Worlds ==
    {w \in [dir : BOOLEAN, level : BOOLEAN, regions : 0..MaxRegions] :
        (w.level \/ w.regions > 0) => w.dir}
ValInputs == [how : Validators, world : Worlds]
\* How the last attempt of sync_world_data ends.
\* "integrated_cperr": the integrated commands ran to their end and exited 0, but a
\* cp of level.dat or of the region files failed (each is followed by "|| echo").
SyncFinals ==
    {"integrated_ok", "integrated_cperr", "integrated_fail", "script_ok", "exception",
     "recursion"}
SyncOutcomes == [retries : 0..MaxSyncRetries, final : SyncFinals, val : ValOutcomes]
\* switch_bungee_priority: the proxy pod lookup and the script run.
SwitchOutcomes == {"ok", "fail", "nopod", "oserr"}
\* check_for_rsync's first probe.
RsyncOutcomes == {"present", "absent", "execfail"}
\* One poll of the shutdown wait loop.
PollOutcomes == {"stopped", "running", "execfail"}

(***************************************************************************)
(* The component operations, as functions of their outcome                 *)
(***************************************************************************)
\* variant: a name without the separator
get_pod_name_unseparated(release, index) == release \o ToString(index)

get_pod_name(release, index) == release \o "-" \o ToString(index)

\* the pod of slot i as perform_update addresses it
PodRef(i) == <<i, get_pod_name(minecraft_release, i)>>

\* RCONClient.__enter__/connect: is rcon.mcr set after the with-statement opens?
rcon_mcr_set(r) == r # "ctorfail"

\* RCONClient.connect: mcrcon made a socket (MCRcon() was built and its connect()
\* called; whether it got as far as the login is r)
rcon_socket(r) == r # "ctorfail"

\* variant: __exit__ runs only when the block is left at its end
rcon_disconnects_at_end_only(path) == path = "end"

\* RCONClient.__exit__: disconnect() is called however the with-block is left:
\* at its end ("end"), by a return inside it ("return"), by an exception
rcon_disconnects(path) == TRUE

\* RCONClient.disconnect closes the socket when self.mcr is set: is the socket
\* still open after the with-block?
rcon_open_after(r, path) == rcon_socket(r) /\ ~(rcon_disconnects(path) /\ rcon_mcr_set(r))

\* how notify_players, save_world and get_online_players leave their with-block:
\* always by a return inside it
notifier_path(r) == "return"

\* one with-block: what it adds to the sessions
Session(r, path) ==
    [connects |-> 1,
     disconnects |-> IF rcon_disconnects(path) THEN 1 ELSE 0,
     open |-> IF rcon_open_after(r, path) THEN 1 ELSE 0]
NoSession == [connects |-> 0, disconnects |-> 0, open |-> 0]
AddSessions(a, b) ==
    [connects |-> a.connects + b.connects,
     disconnects |-> a.disconnects + b.disconnects,
     open |-> a.open + b.open]

\* RCONClient.send_command: the response, or None (FALSE) on error
rcon_command_ok(r) == r = "ok"

\* variant: a scaling that reports success whatever kubectl answers
scale_statefulset_unchecked(o) == TRUE

\* variant: a scaling that runs kubectl whatever --dry-run
scale_statefulset_real(o) == o = "ok"

scale_statefulset(o) == dry_run \/ o = "ok"
scale_raises(o) == ~dry_run /\ o = "oserr"

wait_for_pod_ready(o) == dry_run \/ o = "ok"
wait_raises(o) == ~dry_run /\ o = "oserr"

upgrade_helm_release(o) == dry_run \/ o = "ok"
helm_raises(o) == ~dry_run /\ o = "oserr"

\* variant: a delete that timed out counts as failed
delete_pod_timeout_fails(o) == dry_run \/ o = "ok"

delete_pod(o) == dry_run \/ o \in {"ok", "timeout"}
delete_raises(o) == ~dry_run /\ o = "oserr"

switch_bungee_priority(o) == dry_run \/ o = "ok"
switch_raises(o) == ~dry_run /\ o = "oserr"

notify_players(r) ==
    IF ~has_password THEN FALSE
    ELSE IF dry_run THEN TRUE
    ELSE rcon_mcr_set(r)

save_world(r) ==
    IF ~has_password THEN FALSE
    ELSE IF dry_run THEN TRUE
    ELSE rcon_mcr_set(r)

\* position of the first w in the text s, 0 when there is none
IndexOf(s, w) ==
    IF \E i \in 1..Len(s) : s[i] = w
    THEN CHOOSE i \in 1..Len(s) : s[i] = w /\ \A j \in 1..(i - 1) : s[j] # w
    ELSE 0
\* s.split(w)[0]
split_first(s, w) == IF IndexOf(s, w) = 0 THEN s ELSE SubSeq(s, 1, IndexOf(s, w) - 1)
\* s.split(w)[1], which exists when w occurs in s
split_has_second(s, w) == IndexOf(s, w) # 0
split_second(s, w) == split_first(SubSeq(s, IndexOf(s, w) + 1, Len(s)), w)
\* int(text.strip()): the text must be one numeral
int_ok(s) == Len(s) = 1 /\ \E n \in 0..MaxPlayers : ToString(n) = s[1]
int_of(s) == CHOOSE n \in 0..MaxPlayers : ToString(n) = s[1]

\* variant: a response that cannot be read counts as nobody online
parse_player_count_default_zero(resp) ==
    IF resp = <<>> THEN 0
    ELSE IF ~split_has_second(split_first(resp, ":"), "are") THEN 0
    ELSE LET count_part == split_first(split_second(split_first(resp, ":"), "are"), "of")
         IN  IF int_ok(count_part) THEN int_of(count_part) ELSE 0

\* get_online_players on the response to "list"; -1 stands for None
parse_player_count(resp) ==
    IF resp = <<>> THEN -1
    ELSE IF ~split_has_second(split_first(resp, ":"), "are") THEN -1
    ELSE LET count_part == split_first(split_second(split_first(resp, ":"), "are"), "of")
         IN  IF int_ok(count_part) THEN int_of(count_part) ELSE -1

\* -1 stands for None
get_online_players(r, resp) ==
    IF ~has_password THEN -1
    ELSE IF dry_run THEN 0
    ELSE IF ~rcon_mcr_set(r) THEN -1
    ELSE IF ~rcon_command_ok(r) THEN -1
    ELSE parse_player_count(resp)

\* Does a notifier call open a real RCON session?
rcon_real == has_password /\ ~dry_run
RconFailed(r) == rcon_real /\ r # "ok"

\* the checks validate_world_data makes itself, in their order: the first that
\* fails is the one reported
manual_validation(w) ==
    IF ~w.dir THEN "dir"
    ELSE IF ~w.level THEN "level"
    ELSE IF ~(w.regions > 0) THEN "regions"
    ELSE "ok"

\* validate_world_data's finding on what it meets
validate_finding(vi) ==
    CASE vi.how = "script_pass" -> "valid"
      [] vi.how \in {"script_fail", "script_execfail"} -> "invalid"
      [] vi.how = "configmap" ->
            IF manual_validation(vi.world) = "ok" THEN "valid" ELSE "invalid"
      [] vi.how = "none" -> "unchecked"
      [] vi.how = "exception" -> "error"

\* validate_world_data with self.force_restart = force
validate_result(force, v) ==
    IF skip_validation THEN TRUE
    ELSE IF dry_run THEN TRUE
    ELSE IF v \in {"valid", "unchecked"} THEN TRUE
    ELSE force

\* variant: a validation that accepts whatever it finds
validate_world_data_lenient(v) == TRUE

validate_world_data(v) == validate_result(force_restart, v)

\* variant: the copy validates its target whatever --skip-validation
PostSyncAlwaysValidates == TRUE

\* the guard of the validation that follows a copy
PostSyncValidates == ~skip_validation

RECURSIVE sync_world_data(_)
sync_world_data(so) ==
    IF dry_run THEN TRUE
    ELSE IF so.retries > 0 THEN sync_world_data([so EXCEPT !.retries = @ - 1])
    ELSE IF so.final \in {"exception", "recursion"} THEN force_restart
    ELSE IF so.final = "integrated_fail" THEN FALSE
    ELSE IF PostSyncValidates
         THEN IF ~validate_world_data(so.val)
              THEN (IF ~force_restart THEN FALSE ELSE TRUE)
              ELSE TRUE
         ELSE TRUE

\* the copy commands ran to their end (line 582 is reached)
sync_copied(so) ==
    ~dry_run /\ so.final \in {"integrated_ok", "integrated_cperr", "script_ok"}
\* ... and every file was copied
sync_transferred(so) == ~dry_run /\ so.final \in {"integrated_ok", "script_ok"}
\* variant: a copy that leaves the lock files where they are
locks_after_untouched(direction, so, before, cut) == before

\* are there session.lock / *.lock / *.tmp files in the pod's /minecraft-world
\* after the copy?  Only the integrated from-backup commands remove them; what
\* world-sync.sh or an interrupted or failing run leaves is open (cut).
locks_after(direction, so, before, cut) ==
    IF dry_run THEN before
    ELSE IF so.final = "integrated_ok"
         THEN (IF direction = "from-backup" THEN FALSE ELSE before)
    ELSE IF so.final \in {"integrated_cperr", "integrated_fail"}
         THEN (IF direction = "from-backup" THEN before /\ cut ELSE before)
    ELSE before /\ cut

\* validate_world_data is invoked by sync_world_data
sync_validates(so) == sync_copied(so) /\ PostSyncValidates

\* variant: a phase counted twice
update_progress_twice(step) == step + 2

update_progress(step) == step + 1

(***************************************************************************)
(* Initial state: the command line, and the updater as __init__ leaves it  *)
(***************************************************************************)
Init ==
    /\ pc = "main"
    /\ dry_run \in BOOLEAN
    /\ force_restart \in BOOLEAN
    /\ skip_validation \in BOOLEAN
    /\ has_password \in BOOLEAN
    /\ current_step = 0
    /\ rollback_needed = FALSE
    /\ success = FALSE
    /\ result = "none"
    /\ abort_step = 0
    /\ exit_code = -1
    /\ player_count = -1
    /\ poll_i = 0
    /\ real = {}
    /\ scaled = <<>>
    /\ validate_calls = 0
    /\ replicas = -1
    /\ up = [i \in Slots |-> FALSE]
    /\ hasWorld = [i \in Slots |-> i = 0]
    /\ routing = 0
    /\ switched = <<>>
    /\ last = {}
    /\ call = [op |-> "none"]
    /\ pods = {}
    /\ copies = <<>>
    /\ rcon_failed = FALSE
    /\ sessions = [connects |-> 0, disconnects |-> 0, open |-> 0]
    /\ ext_failed = FALSE

Config == <<dry_run, skip_validation, has_password>>
NoCall == [op |-> "none"]
Cluster == <<replicas, up, hasWorld, routing, switched>>

\* the RCON session a notifier call opens, "none" when it opens none
RconConn(r) == IF rcon_real THEN r ELSE "none"
\* the kinds of real calls a notifier call adds
RconReal == IF rcon_real THEN {"rcon"} ELSE {}
\* the session a notifier call adds
NotifierSession(r) == IF rcon_real THEN Session(r, notifier_path(r)) ELSE NoSession
\* the kinds of real calls a control-plane call of kind k adds
CtlReal(k) == IF dry_run THEN {} ELSE {k}

BoolStr(b) == IF b THEN "true" ELSE "false"

\* variant: an early return reports success
AbortResultTrue == TRUE

\* the value of an early return of perform_update
AbortResult == FALSE

\* perform_update leaves by "return False" in step s
Abort(s) ==
    /\ pc' = "returned"
    /\ result' = BoolStr(AbortResult)
    /\ abort_step' = s

\* perform_update leaves by an exception that no handler of its own catches
Raise ==
    /\ pc' = "returned"
    /\ result' = "raised"
    /\ abort_step' = abort_step

Goto(p) ==
    /\ pc' = p
    /\ result' = result
    /\ abort_step' = abort_step

(***************************************************************************)
(* main: --skip-validation turns --force-restart on, then the updater runs *)
(***************************************************************************)
\* variant: a main that leaves --force-restart as it was given
main_force_restart_as_given == force_restart

\* args.force_restart as main hands it to the updater
main_force_restart == force_restart \/ skip_validation

Main ==
    /\ pc = "main"
    /\ force_restart' = main_force_restart
    /\ pc' = "step1"
    /\ UNCHANGED <<copies, Config, current_step, rollback_needed, success, result, abort_step,
                   exit_code, player_count, poll_i, real, scaled, validate_calls,
                   Cluster, last, call, pods, rcon_failed, sessions,
                   ext_failed>>

\* Schritt 1: Status vor dem Update pruefen
Step1 ==
    /\ pc = "step1"
    /\ \E r \in RconOutcomes, resp \in ListResponses :
        /\ current_step' = update_progress(current_step)
        /\ player_count' = get_online_players(r, resp)
        /\ call' = [op |-> "list", conn |-> RconConn(r),
                    resp |-> IF rcon_real /\ rcon_command_ok(r) THEN resp ELSE <<>>]
        /\ last' = {}
        /\ real' = real \cup RconReal
        /\ rcon_failed' = (rcon_failed \/ RconFailed(r))
        /\ sessions' = AddSessions(sessions, NotifierSession(r))
    /\ Goto("step2")
    /\ UNCHANGED <<copies, Config, force_restart, rollback_needed, success, exit_code, poll_i,
                   scaled, validate_calls, Cluster, pods, ext_failed>>

\* a control-plane, helm, proxy or world-data call reported a failure
ExtBad(o) == ~dry_run /\ o # "ok"
ValBad(v) == ~dry_run /\ ~skip_validation /\ v \in {"invalid", "error"}
SyncBad(so) ==
    ~dry_run /\ (so.retries > 0 \/ so.final \notin {"integrated_ok", "script_ok"}
                 \/ (PostSyncValidates /\ ValBad(so.val)))

\* the copy failed: the transfer, or the validation of what it copied
SyncFailed(so) ==
    ~dry_run /\ (so.final \in {"integrated_fail", "exception", "recursion"}
                 \/ (sync_copied(so) /\ ValBad(so.val)))
SyncTags(so) ==
    (IF SyncFailed(so) THEN {"sync"} ELSE {})
    \cup (IF ~dry_run /\ so.final = "integrated_cperr" THEN {"cperr"} ELSE {})
    \cup (IF ~sync_world_data(so) THEN {"copy"} ELSE {})
Tag(failed, t) == IF failed THEN {t} ELSE {}

\* the runs of world-sync.sh that failed: "all" when every attempt found the
\* script and failed to run it, "some" when a later attempt ended otherwise
script_failures(so) ==
    IF so.final = "recursion" THEN "all"
    ELSE IF so.retries > 0 THEN "some"
    ELSE "none"

\* what the model keeps of a copy: its direction, the failed runs of
\* world-sync.sh, how its last attempt ended, the lock files before and after
\* it, and what sync_world_data returned
CopyCall(direction, so, before, cut) ==
    IF dry_run THEN NoCall
    ELSE [op |-> "copy", direction |-> direction, final |-> so.final,
          script_failures |-> script_failures(so),
          before |-> before, after |-> locks_after(direction, so, before, cut),
          ret |-> BoolStr(sync_world_data(so))]

\* variant: a failed step ends the session whatever --force-restart
phase_abort_always(ok) == ~ok

\* steps 3, 5, 7 and 8 return False after a failure unless --force-restart is on
phase_abort(ok) == ~ok /\ ~force_restart

\* variant: step 2 tolerates its failure under --force-restart like steps 3 to 8
foundational_abort_unless_forced(ok) == ~ok /\ ~force_restart

\* step 2 returns False when server 0 could not be brought up
foundational_abort(ok) == ~ok

\* check_for_rsync: the kinds of real calls it issues (it never looks at dry_run)
\* (the probe, and the installation when rsync is absent, all go through kubectl exec)
check_for_rsync_calls(rs) == {"exec"}

\* Schritt 2: Sicherstellen, dass Server 0 laeuft
Step2 ==
    /\ pc = "step2"
    /\ \E os \in CmdOutcomes, ow \in WaitOutcomes, rs \in RsyncOutcomes :
        LET scaleOk == scale_statefulset(os)
            reachedWait == ~scale_raises(os) /\ scaleOk
            waitOk == wait_for_pod_ready(ow)
            reachedRsync == reachedWait /\ ~wait_raises(ow) /\ waitOk
        IN  /\ current_step' = update_progress(current_step)
            /\ scaled' = Append(scaled, 1)
            /\ player_count' = -1
            /\ call' = NoCall
            /\ pods' = pods \cup (IF reachedWait THEN {PodRef(0)} ELSE {})
            /\ last' = Tag(~scale_raises(os) /\ ~scaleOk, "scale")
                        \cup Tag(reachedWait /\ ~wait_raises(ow) /\ ~waitOk, "wait")
                        \cup Tag(reachedWait /\ ~dry_run /\ ow = "timeout", "wait_timeout")
            /\ real' = real \cup CtlReal("scale")
                            \cup (IF reachedWait THEN CtlReal("wait") ELSE {})
                            \cup (IF reachedRsync THEN check_for_rsync_calls(rs) ELSE {})
            /\ replicas' = IF ~dry_run /\ os = "ok" THEN 1 ELSE replicas
            /\ up' = IF ~dry_run /\ os = "ok"
                     THEN [up EXCEPT ![0] = (ow = "ok"), ![1] = FALSE]
                     ELSE up
            /\ ext_failed' = (ext_failed \/ ExtBad(os) \/ (reachedWait /\ ExtBad(ow)))
            /\ IF scale_raises(os) \/ (reachedWait /\ wait_raises(ow)) THEN Raise
               ELSE IF foundational_abort(reachedRsync) THEN Abort(2)
               ELSE Goto("step3")
    /\ UNCHANGED <<copies, Config, force_restart, rollback_needed, success, exit_code,
                   poll_i, validate_calls, hasWorld, routing, switched, rcon_failed,
                   sessions>>

\* Schritt 3: Validiere die aktuelle Welt
Step3 ==
    /\ pc = "step3"
    /\ \E vi \in ValInputs :
        LET invoked == ~skip_validation
            v == validate_finding(vi)
            valid == validate_world_data(v)
        IN  /\ current_step' = update_progress(current_step)
            /\ validate_calls' = IF invoked THEN validate_calls + 1 ELSE validate_calls
            /\ real' = real \cup (IF invoked THEN CtlReal("exec") ELSE {})
            /\ ext_failed' = (ext_failed \/ (invoked /\ ValBad(v)))
            /\ last' = Tag(invoked /\ ValBad(v), "validate")
            /\ call' = IF invoked /\ ~dry_run
                       THEN [op |-> "validate", how |-> vi.how, world |-> vi.world,
                             ret |-> BoolStr(valid)]
                       ELSE NoCall
            /\ pods' = pods \cup (IF invoked THEN {PodRef(0)} ELSE {})
            /\ IF invoked /\ phase_abort(valid) THEN Abort(3)
               ELSE Goto("step4")
    /\ UNCHANGED <<copies, Config, force_restart, rollback_needed, success, exit_code,
                   player_count, poll_i, scaled, Cluster, rcon_failed, sessions>>

\* Schritt 4: Spieler benachrichtigen
Step4 ==
    /\ pc = "step4"
    /\ \E r \in RconOutcomes :
        /\ current_step' = update_progress(current_step)
        /\ real' = real \cup RconReal
        /\ rcon_failed' = (rcon_failed \/ RconFailed(r))
        /\ sessions' = AddSessions(sessions, NotifierSession(r))
        /\ last' = {}
        /\ call' = [op |-> "notify", conn |-> RconConn(r),
                    ret |-> BoolStr(notify_players(r))]
    /\ Goto("step5")
    /\ UNCHANGED <<copies, Config, force_restart, rollback_needed, success, exit_code,
                   player_count, poll_i, scaled, validate_calls, Cluster, pods,
                   ext_failed>>

\* Schritt 5: Minecraft-Konfiguration aktualisieren
Step5 ==
    /\ pc = "step5"
    /\ \E oh \in CmdOutcomes :
        /\ current_step' = update_progress(current_step)
        /\ real' = real \cup CtlReal("helm")
        /\ replicas' = IF ~dry_run /\ oh = "ok" THEN 1 ELSE replicas
        /\ ext_failed' = (ext_failed \/ ExtBad(oh))
        /\ last' = Tag(~helm_raises(oh) /\ ~upgrade_helm_release(oh), "helm")
        /\ call' = NoCall
        /\ IF helm_raises(oh) THEN Raise
           ELSE IF phase_abort(upgrade_helm_release(oh)) THEN Abort(5)
           ELSE Goto("step6")
    /\ UNCHANGED <<copies, Config, force_restart, rollback_needed, success, exit_code,
                   player_count, poll_i, scaled, validate_calls, up, hasWorld, routing,
                   switched, pods, rcon_failed, sessions>>

\* Schritt 6: Weltdaten speichern
Step6 ==
    /\ pc = "step6"
    /\ \E r1 \in RconOutcomes, r2 \in RconOutcomes :
        /\ current_step' = update_progress(current_step)
        /\ real' = real \cup RconReal
        /\ rcon_failed' = (rcon_failed \/ RconFailed(r1) \/ RconFailed(r2))
        /\ sessions' = AddSessions(sessions,
                            AddSessions(NotifierSession(r1), NotifierSession(r2)))
        /\ last' = {}
        /\ call' = [op |-> "save", conn |-> RconConn(r2), ret |-> BoolStr(save_world(r2))]
    /\ Goto("step7")
    /\ UNCHANGED <<copies, Config, force_restart, rollback_needed, success, exit_code,
                   player_count, poll_i, scaled, validate_calls, Cluster, pods,
                   ext_failed>>

\* Schritt 7: Weltdaten zum Backup synchronisieren
Step7 ==
    /\ pc = "step7"
    /\ \E r \in RconOutcomes, so \in SyncOutcomes, before \in BOOLEAN, cut \in BOOLEAN :
        /\ current_step' = update_progress(current_step)
        /\ real' = real \cup RconReal \cup CtlReal("exec")
        /\ rcon_failed' = (rcon_failed \/ RconFailed(r))
        /\ sessions' = AddSessions(sessions, NotifierSession(r))
        /\ validate_calls' = IF sync_validates(so) THEN validate_calls + 1
                             ELSE validate_calls
        /\ ext_failed' = (ext_failed \/ SyncBad(so))
        /\ last' = SyncTags(so)
        /\ call' = CopyCall("to-backup", so, before, cut)
        /\ copies' = Append(copies, <<0, "to-backup">>)
        /\ pods' = pods \cup {PodRef(0)}
        /\ IF phase_abort(sync_world_data(so)) THEN Abort(7)
           ELSE Goto("step8")
    /\ UNCHANGED <<Config, force_restart, rollback_needed, success, exit_code,
                   player_count, poll_i, scaled, Cluster>>

\* Schritt 8: Server 1 starten
Step8 ==
    /\ pc = "step8"
    /\ \E os \in CmdOutcomes, ow \in WaitOutcomes :
        LET scaleOk == scale_statefulset(os)
            reachedWait == ~scale_raises(os) /\ scaleOk
            waitOk == wait_for_pod_ready(ow)
        IN  /\ current_step' = update_progress(current_step)
            /\ scaled' = Append(scaled, 2)
            /\ call' = NoCall
            /\ pods' = pods \cup (IF reachedWait THEN {PodRef(1)} ELSE {})
            /\ last' = Tag(~scale_raises(os) /\ ~scaleOk, "scale")
                        \cup Tag(reachedWait /\ ~wait_raises(ow) /\ ~waitOk, "wait")
                        \cup Tag(reachedWait /\ ~dry_run /\ ow = "timeout", "wait_timeout")
            /\ real' = real \cup CtlReal("scale")
                            \cup (IF reachedWait THEN CtlReal("wait") ELSE {})
            /\ replicas' = IF ~dry_run /\ os = "ok" THEN 2 ELSE replicas
            /\ up' = IF ~dry_run /\ reachedWait /\ ow = "ok"
                     THEN [up EXCEPT ![1] = TRUE]
                     ELSE up
            /\ ext_failed' = (ext_failed \/ ExtBad(os) \/ (reachedWait /\ ExtBad(ow)))
            /\ IF scale_raises(os) \/ (reachedWait /\ wait_raises(ow)) THEN Raise
               ELSE IF ~scaleOk
                    THEN (IF phase_abort(scaleOk) THEN Abort(8) ELSE Goto("step10"))
               ELSE IF ~waitOk THEN Goto("step10")
               ELSE Goto("step9")
    /\ UNCHANGED <<copies, Config, force_restart, rollback_needed, success, exit_code,
                   player_count, poll_i, validate_calls, hasWorld, routing, switched,
                   rcon_failed, sessions>>

\* variant: the proxy is switched to server 1 whatever the copy returned
SwitchRegardless(ok) == TRUE

\* switch_bungee_priority(1) sits in the else branch of the failed copy
SwitchAfterCopy(ok) == ok

\* Schritt 9: Weltdaten auf Server 1 synchronisieren, Prioritaet zu Server 1
Step9 ==
    /\ pc = "step9"
    /\ \E so \in SyncOutcomes, sw \in SwitchOutcomes, before \in BOOLEAN,
          cut \in BOOLEAN :
        LET switches == SwitchAfterCopy(sync_world_data(so))
        IN  /\ current_step' = update_progress(current_step)
            /\ real' = real \cup CtlReal("exec")
                            \cup (IF switches THEN CtlReal("bungee") ELSE {})
            /\ validate_calls' = IF sync_validates(so) THEN validate_calls + 1
                                 ELSE validate_calls
            /\ hasWorld' = IF sync_transferred(so) THEN [hasWorld EXCEPT ![1] = TRUE]
                           ELSE hasWorld
            /\ switched' = IF switches THEN Append(switched, 1) ELSE switched
            /\ routing' = IF switches /\ ~dry_run /\ sw = "ok" THEN 1 ELSE routing
            /\ ext_failed' = (ext_failed \/ SyncBad(so) \/ (switches /\ ExtBad(sw)))
            /\ last' = SyncTags(so)
                        \cup Tag(switches /\ ~switch_raises(sw)
                                 /\ ~switch_bungee_priority(sw), "switch")
            /\ call' = CopyCall("from-backup", so, before, cut)
            /\ copies' = Append(copies, <<1, "from-backup">>)
            /\ pods' = pods \cup {PodRef(1)}
            /\ IF switches /\ switch_raises(sw) THEN Raise ELSE Goto("step10")
    /\ UNCHANGED <<Config, force_restart, rollback_needed, success, exit_code,
                   player_count, poll_i, scaled, replicas, up, rcon_failed, sessions>>

\* variant: the flag is assigned the step's failure instead of being latched
LatchOverwrite(ok) == ~ok

\* variant: the flag is set whatever the step reported
LatchAlways(ok) == TRUE

\* self.rollback_needed after a step of the restart that reported ok
Latch(ok) == IF ~ok THEN TRUE ELSE rollback_needed

\* shutdown_minecraft_server: delete_pod called inside the try block; an
\* exception of the first call reaches the handler, which calls it again
shutdown_delete(d1, d2) == IF delete_raises(d1) THEN delete_pod(d2) ELSE delete_pod(d1)
shutdown_delete_raises(d1, d2) == delete_raises(d1) /\ delete_raises(d2)

\* the delete_pod call whose result shutdown_minecraft_server returns
shutdown_delete_outcome(d1, d2) ==
    IF force_restart THEN d1 ELSE IF delete_raises(d1) THEN d2 ELSE d1

\* variant: a failed step of the restart ends the session
restart_stops_on_failure(ok) == ok

\* after a failed step of the restart perform_update goes on ("Trotzdem
\* weitermachen"): none of them returns
restart_continues(ok) == TRUE

\* variant: a shutdown without the --force-restart shortcut
shutdown_path_graceful_only(r) ==
    IF dry_run THEN "done"
    ELSE IF rcon_mcr_set(r) THEN "poll"
    ELSE "delete"

\* shutdown_minecraft_server up to the wait loop: "done" with dry-run,
\* "delete" when the pod is deleted at once, "poll" when the stop sequence was sent
shutdown_path(r) ==
    IF dry_run THEN "done"
    ELSE IF force_restart THEN "delete"
    ELSE IF rcon_mcr_set(r) THEN "poll"
    ELSE "delete"

\* the result of delete_pod where shutdown_minecraft_server deletes the pod
\* before any poll: outside the try block with --force-restart, inside it otherwise
shutdown_begin_delete(d1, d2) ==
    IF force_restart THEN delete_pod(d1) ELSE shutdown_delete(d1, d2)

\* variant: a shutdown that gives up when no RCON client could be made
shutdown_begin_rcon_fatal(r, d1, d2) ==
    IF dry_run THEN TRUE
    ELSE IF force_restart THEN delete_pod(d1)
    ELSE IF rcon_mcr_set(r) THEN TRUE
    ELSE FALSE

\* how shutdown_minecraft_server leaves its with-block: at its end after the stop
\* sequence, else by "return self.delete_pod(...)" or by that call's exception
shutdown_block_path(r, d1) ==
    IF rcon_mcr_set(r) THEN "end"
    ELSE IF delete_raises(d1) THEN "exception"
    ELSE "return"

\* the session shutdown_minecraft_server adds (it does not look at rcon_password)
ShutdownSession(r, d1) ==
    IF ~dry_run /\ ~force_restart THEN Session(r, shutdown_block_path(r, d1)) ELSE NoSession

\* the value shutdown_minecraft_server returns when it does not enter the wait loop
shutdown_begin(r, d1, d2) ==
    IF shutdown_path(r) = "delete" THEN shutdown_begin_delete(d1, d2) ELSE TRUE

\* Schritt 10: Server 0 herunterfahren (bis zur Warteschleife)
Step10 ==
    /\ pc = "step10"
    /\ \E r0 \in RconOutcomes, r \in RconOutcomes, d1 \in DeleteOutcomes,
          d2 \in DeleteOutcomes :
        LET path == shutdown_path(r)
            raised == path = "delete" /\
                      (IF force_restart THEN delete_raises(d1)
                       ELSE shutdown_delete_raises(d1, d2))
            ok == shutdown_begin(r, d1, d2)
            deleted == path = "delete" /\ shutdown_begin_delete(d1, d2)
        IN  /\ current_step' = update_progress(current_step)
            /\ real' = real \cup RconReal
                            \cup (IF path = "delete" THEN {"delete"} ELSE {})
                            \cup (IF path = "poll" THEN {"stop_cmds"} ELSE {})
                            \cup (IF ~dry_run /\ ~force_restart THEN {"rcon"} ELSE {})
            /\ rcon_failed' = (rcon_failed \/ RconFailed(r0)
                               \/ (~dry_run /\ ~force_restart /\ r # "ok"))
            /\ sessions' = AddSessions(sessions,
                                AddSessions(NotifierSession(r0), ShutdownSession(r, d1)))
            /\ ext_failed' = (ext_failed \/ (path = "delete" /\ ~deleted))
            /\ last' = Tag(path = "delete" /\ ~raised /\ ~deleted, "delete")
                        \cup Tag(path = "delete" /\ ~raised
                                 /\ shutdown_delete_outcome(d1, d2) = "timeout",
                                 "delete_timeout")
            /\ call' = IF ~dry_run /\ ~force_restart
                       THEN [op |-> "shutdown", conn |-> r] ELSE NoCall
            /\ pods' = pods \cup {PodRef(0)}
            /\ up' = IF deleted /\ ~raised THEN [up EXCEPT ![0] = FALSE] ELSE up
            /\ poll_i' = 0
            /\ rollback_needed' = IF path # "poll" /\ ~raised THEN Latch(ok)
                                  ELSE rollback_needed
            /\ IF raised THEN Raise
               ELSE IF path = "poll" THEN Goto("poll")
               ELSE IF ~restart_continues(ok) THEN Abort(10)
               ELSE Goto("restart_wait")
    /\ UNCHANGED <<copies, Config, force_restart, success, exit_code, player_count, scaled,
                   validate_calls, replicas, hasWorld, routing, switched>>

\* variant: a wait loop without a budget
poll_unbounded(i) == FALSE

\* "for i in range(30)": iteration i (counted from 0) is the last one
poll_exhausted(i) == i + 1 >= PollBudget

\* one iteration of "for i in range(30)", and the forced deletion after the last
Poll ==
    /\ pc = "poll"
    /\ \E po \in PollOutcomes, d1 \in DeleteOutcomes, d2 \in DeleteOutcomes :
        LET stopped == po = "stopped"
            exhausted == poll_exhausted(poll_i)
            deletes == ~stopped /\ exhausted
            raised == deletes /\ shutdown_delete_raises(d1, d2)
            ok == IF deletes THEN shutdown_delete(d1, d2) ELSE TRUE
        IN  /\ real' = real \cup {"exec"} \cup (IF deletes THEN {"delete"} ELSE {})
            /\ poll_i' = IF stopped THEN poll_i ELSE poll_i + 1
            /\ call' = NoCall
            /\ last' = Tag(deletes /\ ~raised /\ ~shutdown_delete(d1, d2), "delete")
                        \cup Tag(deletes /\ ~raised
                                 /\ shutdown_delete_outcome(d1, d2) = "timeout",
                                 "delete_timeout")
            /\ up' = IF stopped \/ (deletes /\ ok /\ ~raised)
                     THEN [up EXCEPT ![0] = FALSE]
                     ELSE up
            /\ ext_failed' = (ext_failed \/ (deletes /\ ~ok))
            /\ rollback_needed' = IF deletes /\ ~raised THEN Latch(ok)
                                  ELSE rollback_needed
            /\ IF raised THEN Raise
               ELSE IF ~restart_continues(ok) THEN Abort(10)
               ELSE IF stopped \/ exhausted THEN Goto("restart_wait")
               ELSE Goto("poll")
    /\ UNCHANGED <<copies, Config, force_restart, current_step, success, exit_code,
                   player_count, scaled, validate_calls, replicas, hasWorld, routing,
                   switched, pods, rcon_failed, sessions>>

\* Schritt 10, zweiter Teil: auf den neugestarteten Server 0 warten
RestartWait ==
    /\ pc = "restart_wait"
    /\ \E ow \in WaitOutcomes :
        /\ real' = real \cup CtlReal("wait")
        /\ up' = IF dry_run THEN up ELSE [up EXCEPT ![0] = (ow = "ok")]
        /\ call' = NoCall
        /\ ext_failed' = (ext_failed \/ ExtBad(ow))
        /\ last' = Tag(~wait_raises(ow) /\ ~wait_for_pod_ready(ow), "wait")
                    \cup Tag(~dry_run /\ ow = "timeout", "wait_timeout")
        /\ rollback_needed' = IF wait_raises(ow) THEN rollback_needed
                              ELSE Latch(wait_for_pod_ready(ow))
        /\ IF wait_raises(ow) THEN Raise
           ELSE IF ~restart_continues(wait_for_pod_ready(ow)) THEN Abort(10)
           ELSE Goto("step11")
    /\ UNCHANGED <<copies, Config, force_restart, current_step, success, exit_code,
                   player_count, poll_i, scaled, validate_calls, replicas, hasWorld,
                   routing, switched, pods, rcon_failed, sessions>>

\* Schritt 11: Weltdaten zurueck auf Server 0, Prioritaet zurueck zu Server 0
Step11 ==
    /\ pc = "step11"
    /\ \E so \in SyncOutcomes, sw \in SwitchOutcomes :
        LET syncOk == sync_world_data(so)
        IN  /\ current_step' = update_progress(current_step)
            /\ real' = real \cup CtlReal("exec") \cup CtlReal("bungee")
            /\ validate_calls' = IF sync_validates(so) THEN validate_calls + 1
                                 ELSE validate_calls
            /\ hasWorld' = IF sync_transferred(so) THEN [hasWorld EXCEPT ![0] = TRUE]
                           ELSE hasWorld
            /\ rollback_needed' = Latch(syncOk)
            /\ copies' = Append(copies, <<0, "from-backup">>)
            /\ switched' = Append(switched, 0)
            /\ routing' = IF ~dry_run /\ sw = "ok" THEN 0 ELSE routing
            /\ ext_failed' = (ext_failed \/ SyncBad(so) \/ ExtBad(sw))
            /\ last' = SyncTags(so)
                        \cup Tag(~switch_raises(sw) /\ ~switch_bungee_priority(sw),
                                 "switch")
            /\ call' = NoCall
            /\ IF switch_raises(sw) THEN Raise
               ELSE IF ~restart_continues(syncOk) THEN Abort(11)
               ELSE Goto("step12")
    /\ UNCHANGED <<Config, force_restart, success, exit_code, player_count, poll_i,
                   scaled, replicas, up, pods, rcon_failed, sessions>>

\* variant: step 12 scales back whatever the flag
CleanupAlwaysScalesDown == TRUE

\* variant: step 12 never scales back
CleanupNeverScalesDown == FALSE

\* step 12 scales back to one replica
CleanupScalesDown == ~rollback_needed

\* variant: the end of perform_update reports success whatever the flag
FinalResultAlways == TRUE

\* the value perform_update returns at its end
FinalResult == ~rollback_needed

\* Schritt 12: Aufraeumen, Abschluss
Step12 ==
    /\ pc = "step12"
    /\ \E r \in RconOutcomes, os \in CmdOutcomes :
        LET scales == CleanupScalesDown
            raised == scales /\ scale_raises(os)
        IN  /\ current_step' = update_progress(current_step)
            /\ real' = real \cup RconReal \cup (IF scales THEN CtlReal("scale") ELSE {})
            /\ rcon_failed' = (rcon_failed \/ RconFailed(r))
            /\ sessions' = AddSessions(sessions, NotifierSession(r))
            /\ scaled' = IF scales THEN Append(scaled, 1) ELSE scaled
            /\ replicas' = IF scales /\ ~dry_run /\ os = "ok" THEN 1 ELSE replicas
            /\ up' = IF scales /\ ~dry_run /\ os = "ok" THEN [up EXCEPT ![1] = FALSE]
                     ELSE up
            /\ ext_failed' = (ext_failed \/ (scales /\ ExtBad(os)))
            /\ last' = Tag(scales /\ ~raised /\ ~scale_statefulset(os), "scale")
            /\ success' = IF raised THEN success ELSE FinalResult
            /\ pc' = "returned"
            /\ result' = IF raised THEN "raised" ELSE BoolStr(FinalResult)
            /\ abort_step' = abort_step
            /\ call' = NoCall
    /\ UNCHANGED <<copies, Config, force_restart, rollback_needed, exit_code, player_count,
                   poll_i, validate_calls, hasWorld, routing, switched, pods>>

\* variant: every failed session exits with 1
main_exit_code_strict == IF result = "true" THEN 0 ELSE 1

\* main after perform_update: the exit code
main_exit_code ==
    IF result = "raised" THEN 1
    ELSE IF result = "false" /\ ~force_restart THEN 1
    ELSE 0

Exit ==
    /\ pc = "returned"
    /\ pc' = "exited"
    /\ exit_code' = main_exit_code
    /\ UNCHANGED <<copies, Config, force_restart, current_step, rollback_needed, success,
                   result, abort_step, player_count, poll_i, real, scaled,
                   validate_calls, Cluster, last, call, pods, rcon_failed, sessions,
                   ext_failed>>

\* KeyboardInterrupt while perform_update runs: main exits with 130
Running == pc \notin {"main", "returned", "exited"}

Interrupt ==
    /\ Running
    /\ pc' = "exited"
    /\ exit_code' = 130
    /\ UNCHANGED <<copies, Config, force_restart, current_step, rollback_needed, success,
                   result, abort_step, player_count, poll_i, real, scaled,
                   validate_calls, Cluster, last, call, pods, rcon_failed, sessions,
                   ext_failed>>

Next ==
    \/ Main
    \/ Step1
    \/ Step2
    \/ Step3
    \/ Step4
    \/ Step5
    \/ Step6
    \/ Step7
    \/ Step8
    \/ Step9
    \/ Step10
    \/ Poll
    \/ RestartWait
    \/ Step11
    \/ Step12
    \/ Exit
    \/ Interrupt

Spec == Init /\ [][Next]_vars

Returned == pc \in {"returned", "exited"} /\ result \in {"true", "false"}

(***************************************************************************)
(* Properties                                                              *)
(***************************************************************************)
\* the kinds of real calls of the control plane, the synchronizer and the proxy
EffectKinds == {"scale", "wait", "delete", "exec", "helm", "bungee"}

\* C1: with --dry-run no call of perform_update reaches a real effect of the
\* control plane, the world-data synchronizer or the routing adapter.
C1_DryRunNoRealEffect == dry_run => real \cap EffectKinds = {}

\* a pod that is up with the world in its /minecraft-world writes to it
ActiveWritable(i) == up[i] /\ hasWorld[i]

\* C2: slot 0 and slot 1 are never both running with a writable active copy
\* of the world.
C2_SingleWriter == ~(ActiveWritable(0) /\ ActiveWritable(1))

\* C3: rollback_needed starts false and, once true, is never set back to false.
C3_RollbackMonotonic ==
    /\ ~rollback_needed
    /\ [][rollback_needed => rollback_needed']_vars

C3_Witness == rollback_needed /\ pc = "step12"

\* C4: a session that reaches step 12 and returns, returns true exactly when
\* rollback_needed is false.
C4_ResultIffNoRollback ==
    (Returned /\ abort_step = 0) => (result = "true" <=> ~rollback_needed)

C4_Witness == Returned /\ abort_step = 0 /\ result = "false" /\ rollback_needed

\* C5 as stated: whenever perform_update returns, also by an early return of
\* steps 2 to 8, the value returned is the negation of rollback_needed.
C5_ResultIsNotRollback == Returned => (result = "true" <=> ~rollback_needed)

\* C5 amended: the value returned is true exactly when rollback_needed is false
\* and no step returned early; an early return happens in step 2, 3, 5, 7 or 8,
\* returns false and leaves rollback_needed false.
C5_ResultAmended ==
    /\ Returned => (result = "true" <=> (~rollback_needed /\ abort_step = 0))
    /\ abort_step # 0 => (abort_step \in {2, 3, 5, 7, 8} /\ ~rollback_needed)

C5_Witness == Returned /\ abort_step # 0 /\ result = "false" /\ ~rollback_needed

\* C6: once rollback_needed is true, no scale_statefulset(1) or
\* scale_statefulset(0) is invoked any more.
C6_NoScaleDownAfterLatch ==
    [][rollback_needed =>
         (scaled' = scaled \/ scaled'[Len(scaled')] >= 2)]_vars

C6_Witness == Returned /\ abort_step = 0 /\ rollback_needed /\ scaled = <<1, 2>>

\* C7: a session that ends with rollback_needed true has slot 1 as its safety
\* net: two replicas, slot 1 ready, and the world restored into slot 1.
C7_SafetyNet ==
    (Returned /\ rollback_needed) => (replicas = 2 /\ up[1] /\ hasWorld[1])

\* C8: current_step starts at 0, changes only by +1, and never exceeds
\* total_steps.
C8_StepCounter ==
    /\ current_step = 0
    /\ [][/\ current_step' \in {current_step, current_step + 1}
          /\ current_step' <= total_steps]_vars

C8_Witness == current_step = total_steps /\ Returned

\* C9: with --skip-validation, validate_world_data is never invoked, neither
\* in step 3 nor after a copy.
C9_SkipNeverValidates == skip_validation => validate_calls = 0

C9_Witness ==
    skip_validation /\ ~dry_run /\ Returned /\ abort_step = 0 /\ hasWorld[1]

\* C10: a notifier failure alone neither sets rollback_needed nor ends the
\* session early: either happens only after a failure of another operation.
C10_NotifierNotFatal == (rollback_needed \/ abort_step # 0) => ext_failed

C10_Witness == rcon_failed /\ ~ext_failed /\ Returned /\ result = "true"

Ended == pc \in {"returned", "exited"}

\* C11: when scale_statefulset(1) or wait_for_pod_ready(pod 0) fails in step 2,
\* the session ends at once with result false, whatever the flags, and nothing
\* of a later step has been done.
C11_Phase2FailureAborts ==
    (current_step = 2 /\ last \cap {"scale", "wait"} # {}) =>
        /\ Ended /\ result = "false" /\ abort_step = 2
        /\ validate_calls = 0
        /\ real \subseteq {"rcon", "scale", "wait"}
        /\ scaled = <<1>>
        /\ switched = <<>>

C11_Witness == pc = "exited" /\ abort_step = 2 /\ force_restart /\ skip_validation

\* C12: a failure of the restart of slot 0 (shutdown, wait for readiness) or of
\* the copy back to slot 0 (transfer or validation) always sets
\* rollback_needed, also with --force-restart.
C12_RestartFailureLatches ==
    /\ (pc = "restart_wait" /\ "delete" \in last) => rollback_needed
    /\ (pc = "step11" /\ "wait" \in last) => rollback_needed
    /\ (pc = "step12" /\ "sync" \in last) => rollback_needed

\* C13: bringing up slot 1 never ends the session: no early return in step 8.
C13_Phase8NeverAborts == abort_step # 8

\* the wait loop ran out and the pod was deleted instead
PollsExhausted == pc = "restart_wait" /\ poll_i = PollBudget

\* C14 as stated: when the wait loop runs out and the forced deletion
\* succeeds, rollback_needed is set all the same.
C14_ExhaustedPollsLatch == (PollsExhausted /\ "delete" \notin last) => rollback_needed

\* C14 amended: when the wait loop runs out, shutdown_minecraft_server returns
\* what the forced deletion returns, and rollback_needed is set at that point
\* exactly when the deletion failed.
C14_FallbackDeleteDecides == PollsExhausted => (rollback_needed <=> "delete" \in last)

C14_Witness == PollsExhausted /\ ~rollback_needed /\ "delete" \in real

\* C15: with --force-restart and without --dry-run the shutdown of step 10
\* sends no say / save-all / stop command and never waits for the server to
\* stop: it deletes the pod.
C15_ForcedRestartSkipsGraceful ==
    (force_restart /\ ~dry_run) =>
        /\ "stop_cmds" \notin real
        /\ pc # "poll"
        /\ pc \in {"restart_wait", "step11", "step12"} => "delete" \in real

C15_Witness == force_restart /\ ~dry_run /\ pc = "restart_wait" /\ "delete" \in real

\* C16: without --force-restart, a failed validation in step 3 ends the session
\* before the helm upgrade, with result false and rollback_needed false.
C16_ValidationFailureAborts ==
    /\ (current_step = 3 /\ "validate" \in last /\ ~force_restart) =>
           (Ended /\ abort_step = 3)
    /\ abort_step = 3 =>
           /\ result = "false" /\ ~rollback_needed /\ current_step = 3
           /\ "helm" \notin real /\ ~force_restart

C16_Witness == pc = "exited" /\ abort_step = 3 /\ exit_code = 1

\* C17: when no operation of any step fails, step 12 scales back to one
\* replica, rollback_needed is false and the result is true.
C17_AllSucceed ==
    (Returned /\ ~ext_failed) =>
        /\ result = "true" /\ ~rollback_needed /\ success
        /\ scaled = <<1, 2, 1>>
        /\ switched = <<1, 0>>
        /\ ~dry_run => (replicas = 1 /\ ~up[1])

C17_Witness == Returned /\ ~ext_failed /\ ~dry_run /\ replicas = 1 /\ hasWorld[1]

C19_ValidatePure ==
    pc = "step3" =>
        \A v \in ValOutcomes : validate_result(TRUE, v) = validate_result(FALSE, v)

\* C20: without --force-restart, a copy whose transfer had a file-level error
\* returns failure (seen in step 7, where a failed copy ends the session).
C20_CopyErrorReported ==
    (current_step = 7 /\ "cperr" \in last /\ ~force_restart) => abort_step = 7

\* C21: when the RCON connection cannot be established, notify_players and
\* save_world return False and get_online_players returns None.
C21_NotifierDegrades ==
    /\ (call.op \in {"notify", "save"} /\ call.conn \in {"ctorfail", "connfail"}) =>
           call.ret = "false"
    /\ (call.op = "list" /\ call.conn \in {"ctorfail", "connfail"}) => player_count = -1

\* the list query got no answer that states a player count
ListFailed ==
    call.op = "list"
    /\ (call.conn # "ok" \/ \A n \in 0..MaxPlayers : call.resp # ListResponse(n))

\* C22 as stated: get_online_players returns 0 only when the response to "list"
\* states 0 players.
C22_ZeroOnlyWhenStated ==
    (call.op = "list" /\ player_count = 0) =>
        (call.conn = "ok" /\ call.resp = ListResponse(0))

\* C22 amended: a real query returns None when the connection fails or the
\* response is missing, empty or unreadable, and 0 only when the response
\* states 0 players; under --dry-run no query is made and 0 is returned.
C22_ZeroStatedOrSimulated ==
    call.op = "list" =>
        /\ player_count = 0 =>
               (dry_run \/ (call.conn = "ok" /\ call.resp = ListResponse(0)))
        /\ (~dry_run /\ ListFailed) => player_count = -1

C22_Witness ==
    /\ call.op = "list" /\ call.conn = "ok" /\ player_count = -1
    /\ call.resp = <<"There", "are", "of", "a", "max", "players", "online", ":">>

C24_InstanceNaming ==
    /\ get_pod_name("minecraft-server", 1) = "minecraft-server-1"
    /\ \A p \in pods : p[2] = minecraft_release \o "-" \o ToString(p[1])
    /\ pods \subseteq {<<0, "minecraft-server-0">>, <<1, "minecraft-server-1">>}
    /\ (~dry_run /\ up[0]) => <<0, "minecraft-server-0">> \in pods
    /\ (~dry_run /\ up[1]) => <<1, "minecraft-server-1">> \in pods

C24_Witness == <<1, "minecraft-server-1">> \in pods /\ up[1] /\ hasWorld[1]

\* C25: perform_update never leaves by an exception: every failure of an
\* external call is turned into a return value where the call is made.
C25_NeverRaises == result # "raised"

\* after the failure of a step the session went on to p / ended in step s
WentOn(p) == abort_step = 0 /\ result = "none" /\ pc \in {p, "exited"}
EndedIn(s) == Ended /\ abort_step = s /\ result = "false"

\* C26: when the validation of step 3, the helm upgrade of step 5 or the copy
\* to the backup of step 7 fails, the session ends there with result false
\* without --force-restart, and goes on to the next step with it.
C26_ForceDecides ==
    /\ (current_step = 3 /\ "validate" \in last) =>
           IF force_restart THEN WentOn("step4") ELSE EndedIn(3)
    /\ (current_step = 5 /\ "helm" \in last) =>
           IF force_restart THEN WentOn("step6") ELSE EndedIn(5)
    /\ (current_step = 7 /\ last \cap {"sync", "copy"} # {}) =>
           IF force_restart THEN WentOn("step8") ELSE EndedIn(7)

C26_Witness == force_restart /\ current_step = 7 /\ "copy" \in last /\ pc = "step8"

\* C27: the proxy is switched to server 1 only after the copy to server 1
\* returned True, that copy is started only after the wait for server 1
\* succeeded, that wait only after the scaling to 2 succeeded, and all of it
\* only after the copy of server 0 to the backup was attempted.
C27_SlotOneOrder ==
    [][/\ (pc' = "step8" /\ pc # "step8") =>
              /\ pc = "step7"
              /\ ~dry_run => (call'.op = "copy" /\ call'.direction = "to-backup")
       /\ scaled' = Append(scaled, 2) => pc = "step8"
       /\ (pc' = "step9" /\ pc # "step9") =>
              /\ pc = "step8"
              /\ scaled' = <<1, 2>>
              /\ last' \cap {"scale", "wait"} = {}
              /\ ~dry_run => (replicas' = 2 /\ up'[1])
       /\ switched' = Append(switched, 1) =>
              /\ pc = "step9"
              /\ "copy" \notin last'
              /\ ~dry_run => call'.ret = "true"]_vars

C27_Witness == switched = <<1>> /\ pc = "step10" /\ ~dry_run /\ routing = 1

\* leaving p, the session goes to one of q unless it is interrupted or raises
Advance(p, q) == (pc = p /\ pc' # p) => (pc' \in q \/ pc' = "exited" \/ result' = "raised")

\* C28: a failed shutdown of server 0, a failed wait for the restarted server
\* 0 or a failed copy back to server 0 does not end the session: the copy
\* back, the switch of the proxy to server 0 and step 12 still follow, in
\* that order.
C28_RestartFailureContinues ==
    /\ [](abort_step \notin {10, 11, 12})
    /\ []((Returned /\ rollback_needed) =>
             (abort_step = 0 /\ switched # <<>> /\ switched[Len(switched)] = 0))
    /\ [][/\ Advance("step10", {"poll", "restart_wait"})
          /\ Advance("poll", {"restart_wait"})
          /\ Advance("restart_wait", {"step11"})
          /\ Advance("step11", {"step12"})
          /\ Advance("step12", {"returned"})
          /\ (pc = "step11" /\ pc' \notin {"step11", "exited"}) =>
                 /\ switched' = Append(switched, 0)
                 /\ ~dry_run => "exec" \in real']_vars

C28_Witness ==
    /\ pc = "step12" /\ rollback_needed /\ "copy" \in last
    /\ switched # <<>> /\ switched[Len(switched)] = 0

\* C29: without --force-restart and --skip-validation, validate_world_data
\* returns True only for a world whose directory, level.dat and at least one
\* region file exist.
C29_ValidateChecksWorld ==
    (call.op = "validate" /\ call.how \in {"configmap", "none"} /\ ~force_restart
     /\ call.ret = "true") =>
        (call.world.dir /\ call.world.level /\ call.world.regions > 0)

\* C30: after a successful from-backup copy by the integrated commands the
\* pod's /minecraft-world holds no session.lock, *.lock or *.tmp file; the
\* integrated to-backup copy removes nothing there.
C30_LocksCleared ==
    call.op = "copy" =>
        /\ (call.direction = "from-backup" /\ call.final = "integrated_ok"
            /\ call.ret = "true") => ~call.after
        /\ (call.direction = "to-backup"
            /\ call.final \in {"integrated_ok", "integrated_cperr", "integrated_fail"}) =>
               call.after = call.before

C30_Witness ==
    /\ call.op = "copy" /\ call.direction = "from-backup"
    /\ call.final = "integrated_ok" /\ call.ret = "true"
    /\ call.before /\ ~call.after

\* C31: the graceful shutdown of step 10 ends after at most 30 polls: the wait
\* loop is entered only after the stop sequence was sent, every poll that does
\* not end it counts one up towards 30, a poll that reports the server stopped
\* ends the shutdown with True (no deletion, no rollback_needed), and the 30th
\* poll without that deletes the pod and gives the deletion's result.
C31_BoundedGracefulStop ==
    [][/\ poll_i' <= 30
       /\ (pc' = "poll" /\ pc # "poll") =>
              (pc = "step10" /\ poll_i' = 0 /\ "stop_cmds" \in real')
       /\ (pc = "poll" /\ pc' = "poll") => (poll_i' = poll_i + 1 /\ poll_i' < 30)
       /\ (pc = "poll" /\ pc' = "restart_wait") =>
              \/ /\ poll_i' = poll_i /\ poll_i < 30
                 /\ ~up'[0] /\ ~rollback_needed' /\ "delete" \notin real'
              \/ /\ poll_i = 29 /\ poll_i' = 30
                 /\ "delete" \in real'
                 /\ rollback_needed' <=> "delete" \in last']_vars

C31_Witness ==
    /\ pc = "restart_wait" /\ "stop_cmds" \in real /\ poll_i = 29
    /\ ~up[0] /\ ~rollback_needed /\ "delete" \notin real

\* the RCON sessions the step at p opens
StepSessions(p) ==
    CASE p \in {"step1", "step4", "step7", "step12"} -> IF rcon_real THEN 1 ELSE 0
      [] p = "step6" -> IF rcon_real THEN 2 ELSE 0
      [] p = "step10" -> (IF rcon_real THEN 1 ELSE 0)
                         + (IF ~dry_run /\ ~force_restart THEN 1 ELSE 0)
      [] OTHER -> 0

\* C32: every call of notify_players, save_world and get_online_players and
\* the stop notification of step 10 opens an RCON session of its own and
\* leaves it by disconnect, however the with-block is left: between the calls
\* no socket is open and every connect has had its disconnect.
C32_SessionsReleased ==
    /\ [](sessions.open = 0 /\ sessions.disconnects = sessions.connects)
    /\ [][(pc' \notin {pc, "exited"}) =>
              sessions'.connects = sessions.connects + StepSessions(pc)]_vars

C32_Witness ==
    /\ pc = "returned" /\ result = "true" /\ rcon_failed /\ ~force_restart
    /\ sessions.connects = 8 /\ sessions.disconnects = 8

\* the number of update_progress calls made when perform_update stands at p
\* and has skipped nothing
StepsBefore(p) ==
    CASE p \in {"main", "step1"} -> 0
      [] p = "step2" -> 1
      [] p = "step3" -> 2
      [] p = "step4" -> 3
      [] p = "step5" -> 4
      [] p = "step6" -> 5
      [] p = "step7" -> 6
      [] p = "step8" -> 7
      [] p = "step9" -> 8
      [] p = "step10" -> 9
      [] p \in {"poll", "restart_wait", "step11"} -> 10
      [] p = "step12" -> 11
      [] OTHER -> total_steps

\* C33: with --dry-run, whatever the external systems answer, perform_update
\* goes through every step in order, never returns early, never raises, never
\* sets rollback_needed, and returns True with current_step = total_steps = 12.
C33_DryRunCompletes ==
    dry_run =>
        /\ ~rollback_needed /\ abort_step = 0 /\ result \in {"none", "true"}
        /\ pc # "poll"
        /\ pc # "exited" => current_step = StepsBefore(pc)
        /\ pc = "returned" => (result = "true" /\ success /\ current_step = 12)
        /\ (pc = "exited" /\ exit_code # 130) =>
               (result = "true" /\ current_step = total_steps /\ exit_code = 0)

C33_Witness ==
    /\ dry_run /\ pc = "exited" /\ exit_code = 0 /\ result = "true"
    /\ current_step = 12 /\ scaled = <<1, 2, 1>> /\ switched = <<1, 0>>

\* C34: every session that comes to step 12 ends with current_step equal to
\* total_steps (12), also when server 1 could not be scaled up or did not
\* become ready.
C34_ReconcileAtTotal ==
    /\ pc = "step12" => current_step = total_steps - 1
    /\ (Returned /\ abort_step = 0) => current_step = total_steps

\* C35: when the proxy was switched to server 1 and the session returns True
\* (here: every operation succeeded, so server 1 served the players from step
\* 9 to step 11), the world of server 1 was copied to the backup before the
\* backup was copied back to server 0.
C35_CutoverKeepsWrites ==
    (Returned /\ result = "true" /\ ~dry_run /\ ~ext_failed /\ switched = <<1, 0>>) =>
        \E i, j \in DOMAIN copies :
            /\ i < j
            /\ copies[i] = <<1, "to-backup">>
            /\ copies[j] = <<0, "from-backup">>

\* C36 as stated: a session that returns True ends with one replica requested
\* and server 1 no longer up.
C36_OneInstanceLeft ==
    (Returned /\ result = "true" /\ ~dry_run) => (replicas = 1 /\ ~up[1])

\* C36 amended: a session that returns True has asked for one replica as its
\* last scaling, in step 12; when that scaling succeeded the replica count is
\* 1 and server 1 is no longer up; when it failed the failure is only logged,
\* the session still returns True and the replica count stays as it was.
C36_ScaleDownRequested ==
    (Returned /\ result = "true") =>
        /\ abort_step = 0 /\ ~rollback_needed
        /\ Len(scaled) = 3 /\ scaled[3] = 1
        /\ (~dry_run /\ "scale" \notin last) => (replicas = 1 /\ ~up[1])

C36_Witness ==
    /\ Returned /\ result = "true" /\ ~dry_run /\ "scale" \in last
    /\ replicas = 2 /\ up[1]

\* C37: switch_bungee_priority(0) is never called once rollback_needed was set
\* by a failed shutdown of server 0, a failed wait for the restarted server 0
\* or a failed copy back to server 0.
C37_NoRestoreAfterLatch ==
    [][switched' = Append(switched, 0) => ~rollback_needed']_vars

\* C38: when world-sync.sh exists but its run fails, sync_world_data goes on
\* with the integrated copy commands and returns their outcome (False when
\* they could not be run), also when the script fails at every attempt.
C38_ScriptFailureFallsBack ==
    (call.op = "copy" /\ call.script_failures # "none") =>
        /\ call.final \in {"integrated_ok", "integrated_cperr", "integrated_fail"}
        /\ call.final = "integrated_fail" => call.ret = "false"

\* C39: in the shutdown of step 10 without --dry-run and --force-restart, when
\* the RCON connection cannot be established no say / save-all / stop command
\* is sent and the wait loop is not entered: the pod is deleted at once and
\* the shutdown returns the deletion's result.
C39_NoConnectionDeletesAtOnce ==
    (call.op = "shutdown" /\ call.conn \in {"ctorfail", "connfail"}) =>
        /\ pc # "poll"
        /\ "stop_cmds" \notin real
        /\ "delete" \in real
        /\ pc = "restart_wait" => (rollback_needed <=> "delete" \in last)

\* perform_update has just gone on after a failure of step 3, 5 or 7
Tolerated ==
    \/ pc = "step4" /\ "validate" \in last
    \/ pc = "step6" /\ "helm" \in last
    \/ pc = "step8" /\ last \cap {"sync", "copy"} # {}

\* C40: the flag that lets steps 3, 5 and 7 go on after a failure is the flag
\* that makes the shutdown of step 10 delete the pod at once: a session
\* without --dry-run that went on after such a failure, or that main started
\* with --skip-validation, has force_restart on from then to its end, and
\* with it step 10 opens no RCON session, sends no stop sequence, never
\* enters the wait loop and deletes the pod of server 0.
C40_ToleranceIsForcedStop ==
    /\ []((pc # "main" /\ (skip_validation \/ Tolerated)) => force_restart)
    /\ [][pc # "main" => force_restart' = force_restart]_vars
    /\ []((pc # "main" /\ force_restart /\ ~dry_run) =>
             /\ call.op # "shutdown" /\ "stop_cmds" \notin real /\ pc # "poll"
             /\ pc \in {"restart_wait", "step11", "step12"} => "delete" \in real)
    /\ [][(pc = "step10" /\ pc' \notin {"step10", "exited"} /\ force_restart /\ ~dry_run) =>
              /\ pc' \in {"restart_wait", "returned"}
              /\ sessions'.connects = sessions.connects + (IF has_password THEN 1 ELSE 0)
              /\ pods' = pods \cup {<<0, "minecraft-server-0">>}]_vars

C40_Witness ==
    /\ pc = "restart_wait" /\ skip_validation /\ ~dry_run /\ ext_failed
    /\ "delete" \in real /\ "stop_cmds" \notin real /\ ~up[0]
====
